---- MODULE Spec2Model ----
(***************************************************************************)
(* The in-memory store of the todo-board server (MemStorage) and the       *)
(* request handlers that call it.                                          *)
(*                                                                         *)
(* A JavaScript Map keeps its keys in insertion order.  Every Map of the   *)
(* store is keyed by a handle taken from a counter that only grows, and a  *)
(* set() on an existing key keeps the key's position, so insertion order   *)
(* is ascending key order: a Map is modelled as a function on its key set  *)
(* and iterated in ascending key order.                                    *)
(***************************************************************************)
EXTENDS Integers, Sequences, FiniteSets, TLC

\* ------------------------------------------------------------------ bounds
MaxUsers   == 2   \* accounts created / account handles used as arguments
MaxBoards  == 2   \* boards created / board handles used as arguments
MaxMembers == 3   \* memberships created
MaxTodos   == 2   \* todos created / todo handles used as arguments
MaxTime    == 2   \* readings of the millisecond clock
MaxReq     == 2   \* HTTP requests in flight at once

VARIABLES
  users, boards, boardMembers, todos,          \* MemStorage's four Maps
  currentUserId, currentBoardId,               \* MemStorage's four counters
  currentBoardMemberId, currentTodoId,
  now,                                         \* the reading `new Date()` gives
  pc, rq                                       \* per request: position, locals

storeVars == <<users, boards, boardMembers, todos,
               currentUserId, currentBoardId, currentBoardMemberId, currentTodoId>>
vars == <<users, boards, boardMembers, todos,
          currentUserId, currentBoardId, currentBoardMemberId, currentTodoId,
          now, pc, rq>>

\* ------------------------------------------------------- JavaScript values
\* null / undefined of a number-typed field; 0 is falsy like them.
NullInt == 0
\* null and undefined of a string-typed field.
NullStr == "null"
Undefined == "undefined"
\* undefined where an object is expected (a Map.get or a find that found nothing).
Absent == [undefined |-> TRUE]

\* JavaScript truthiness, as `x || dflt` and `if (x)` use it, of a string-typed
\* and of a number-typed value.
FalsyStr(v) == v \in {NullStr, Undefined, ""}
FalsyInt(v) == v = NullInt

\* x || dflt
OrElseStr(v, dflt) == IF FalsyStr(v) THEN dflt ELSE v
OrElseInt(v, dflt) == IF FalsyInt(v) THEN dflt ELSE v

\* obj.f, and what destructuring `const { f } = obj` binds: undefined when obj
\* has no property f.
Prop(obj, f) == IF f \in DOMAIN obj THEN obj[f] ELSE Undefined

\* ------------------------------------------------------------------- Maps
EmptyMap == [k \in {} |-> NullInt]

\* Map.prototype.set
MapSet(m, k, v) == [x \in DOMAIN m \cup {k} |-> IF x = k THEN v ELSE m[x]]

\* Map.prototype.delete (the Map afterwards)
MapDelete(m, k) == [x \in DOMAIN m \ {k} |-> m[x]]

\* The keys of a Map in iteration order.
RECURSIVE KeysInOrder(_)
KeysInOrder(K) ==
  IF K = {} THEN <<>>
  ELSE LET k == CHOOSE x \in K : \A y \in K : x <= y
       IN <<k>> \o KeysInOrder(K \ {k})

\* Array.from(m.values()).find(p): the key of the first match, or NullInt.
FirstKey(K) == IF K = {} THEN NullInt ELSE CHOOSE x \in K : \A y \in K : x <= y

\* { ...obj, ...updates }: own properties of updates override those of obj.
Spread(obj, updates) ==
  [f \in DOMAIN obj \cup DOMAIN updates |->
     IF f \in DOMAIN updates THEN updates[f] ELSE obj[f]]

\* ------------------------------------------------------------ the store
\* The fields of a MemStorage instance as one value.
Store ==
  [users |-> users, boards |-> boards, boardMembers |-> boardMembers, todos |-> todos,
   currentUserId |-> currentUserId, currentBoardId |-> currentBoardId,
   currentBoardMemberId |-> currentBoardMemberId, currentTodoId |-> currentTodoId]

\* new MemStorage()
NewStore ==
  [users |-> EmptyMap, boards |-> EmptyMap, boardMembers |-> EmptyMap, todos |-> EmptyMap,
   currentUserId |-> 1, currentBoardId |-> 1,
   currentBoardMemberId |-> 1, currentTodoId |-> 1]

\* Each operation below maps a store (and its arguments) to the store after
\* the call and the value the returned promise resolves to.

getUser(s, id) == IF id \in DOMAIN s.users THEN s.users[id] ELSE Absent

getUserByUsername(s, username) ==
  LET k == FirstKey({i \in DOMAIN s.users : s.users[i].username = username})
  IN IF k = NullInt THEN Absent ELSE s.users[k]

getUserByPhoneNumber(s, phoneNumber) ==
  LET k == FirstKey({i \in DOMAIN s.users : s.users[i].phoneNumber = phoneNumber})
  IN IF k = NullInt THEN Absent ELSE s.users[k]

createUser(s, insertUser) ==
  LET id   == s.currentUserId
      user == [id |-> id,
               username |-> insertUser.username,
               password |-> insertUser.password,
               phoneNumber |-> insertUser.phoneNumber,
               displayName |-> OrElseStr(insertUser.displayName, NullStr),
               photoURL |-> OrElseStr(insertUser.photoURL, NullStr)]
  IN [s   |-> [s EXCEPT !.currentUserId = id + 1, !.users = MapSet(@, id, user)],
      ret |-> user]

\* The memberships / todos of one board, as the filters of the store select them.
MembersOf(s, boardId) == {i \in DOMAIN s.boardMembers : s.boardMembers[i].boardId = boardId}
TodosOf(s, boardId) == {i \in DOMAIN s.todos : s.todos[i].boardId = boardId}

\* The memberships of the pair (boardId, userId), as the find() predicates of
\* addBoardMember, removeBoardMember and updateBoardMemberRole select them.
PairMembers(s, boardId, userId) ==
  {i \in DOMAIN s.boardMembers :
     /\ s.boardMembers[i].boardId = boardId
     /\ s.boardMembers[i].userId = userId}

\* The element with the board filter of the two counts left out.
WithCounts_CountAll(s, boardId) ==
  Spread(IF boardId \in DOMAIN s.boards THEN s.boards[boardId] ELSE EmptyMap,
         [todoCount |-> Cardinality(DOMAIN s.todos),
          memberCount |-> Cardinality(DOMAIN s.boardMembers)])

\* One element of getBoards / getBoardsByUser: { ...board, todoCount, memberCount };
\* spreading an undefined board contributes no property.
WithCounts(s, boardId) ==
  Spread(IF boardId \in DOMAIN s.boards THEN s.boards[boardId] ELSE EmptyMap,
         [todoCount |-> Cardinality(TodosOf(s, boardId)),
          memberCount |-> Cardinality(MembersOf(s, boardId))])

\* getBoards counts by the id the board object carries.
getBoards(s) ==
  LET keys == KeysInOrder(DOMAIN s.boards)
  IN [i \in 1..Len(keys) |->
        LET board == s.boards[keys[i]]
        IN Spread(board, [todoCount |-> Cardinality(TodosOf(s, board.id)),
                          memberCount |-> Cardinality(MembersOf(s, board.id))])]

\* Insertion into a Set<number>: an element already present keeps its place.
RECURSIVE AddAll(_, _)
AddAll(seq, more) ==
  IF more = <<>> THEN seq
  ELSE AddAll(IF \E i \in 1..Len(seq) : seq[i] = Head(more)
              THEN seq ELSE Append(seq, Head(more)),
              Tail(more))

getBoardsByUser(s, userId) ==
  LET created  == KeysInOrder({b \in DOMAIN s.boards : s.boards[b].createdBy = userId})
      memberOf == KeysInOrder({m \in DOMAIN s.boardMembers : s.boardMembers[m].userId = userId})
      boardIds == AddAll(AddAll(<<>>, created),
                         [i \in 1..Len(memberOf) |-> s.boardMembers[memberOf[i]].boardId])
  IN [i \in 1..Len(boardIds) |-> WithCounts(s, boardIds[i])]

getBoard(s, id) == IF id \in DOMAIN s.boards THEN s.boards[id] ELSE Absent

\* The members are looked up by handle; an account that is not in the store
\* gives an undefined element.
getBoardWithMembers(s, id) ==
  IF id \notin DOMAIN s.boards
  THEN Absent
  ELSE LET keys == KeysInOrder(MembersOf(s, id))
           memberIds == [i \in 1..Len(keys) |-> s.boardMembers[keys[i]].userId]
           members == [i \in 1..Len(memberIds) |->
                         IF memberIds[i] \in DOMAIN s.users
                         THEN s.users[memberIds[i]] ELSE Absent]
       IN Spread(s.boards[id], [members |-> members])

getBoardMembers(s, boardId) ==
  LET keys == KeysInOrder(MembersOf(s, boardId))
  IN [i \in 1..Len(keys) |-> s.boardMembers[keys[i]]]

getTodos(s, boardId) ==
  LET keys == KeysInOrder(TodosOf(s, boardId))
  IN [i \in 1..Len(keys) |->
        LET todo == s.todos[keys[i]]
        IN IF ~FalsyInt(todo.assignedTo)
           THEN Spread(todo, [assignee |-> IF todo.assignedTo \in DOMAIN s.users
                                           THEN s.users[todo.assignedTo]
                                           ELSE Absent])
           ELSE todo]

getTodo(s, id) == IF id \in DOMAIN s.todos THEN s.todos[id] ELSE Absent

\* addBoardMember with the lookup of an existing membership left out.
addBoardMember_NoLookup(s, insertMember) ==
  LET id     == s.currentBoardMemberId
      member == [id |-> id, boardId |-> insertMember.boardId,
                 userId |-> insertMember.userId,
                 role |-> OrElseStr(insertMember.role, "editor")]
  IN [s   |-> [s EXCEPT !.currentBoardMemberId = id + 1,
                        !.boardMembers = MapSet(@, id, member)],
      ret |-> member]

\* addBoardMember as an upsert: an existing membership takes the new role.
addBoardMember_Upsert(s, insertMember) ==
  LET existing == FirstKey(PairMembers(s, insertMember.boardId, insertMember.userId))
  IN IF existing # NullInt
     THEN LET updated == [s.boardMembers[existing] EXCEPT
                            !.role = OrElseStr(insertMember.role, "editor")]
          IN [s |-> [s EXCEPT !.boardMembers = MapSet(@, existing, updated)],
              ret |-> updated]
     ELSE addBoardMember_NoLookup(s, insertMember)

addBoardMember(s, insertMember) ==
  LET existingMember ==
        FirstKey(PairMembers(s, insertMember.boardId, insertMember.userId))
  IN IF existingMember # NullInt
     THEN [s |-> s, ret |-> s.boardMembers[existingMember]]
     ELSE LET id     == s.currentBoardMemberId
              member == [id |-> id, boardId |-> insertMember.boardId,
                         userId |-> insertMember.userId,
                         role |-> OrElseStr(insertMember.role, "editor")]
          IN [s   |-> [s EXCEPT !.currentBoardMemberId = id + 1,
                                !.boardMembers = MapSet(@, id, member)],
              ret |-> member]

\* removeBoardMember matching on the board alone.
removeBoardMember_AnyOfBoard(s, boardId, userId) ==
  LET memberId == FirstKey(MembersOf(s, boardId))
  IN IF memberId # NullInt
     THEN [s |-> [s EXCEPT !.boardMembers = MapDelete(@, memberId)], ret |-> TRUE]
     ELSE [s |-> s, ret |-> FALSE]

removeBoardMember(s, boardId, userId) ==
  LET memberId == FirstKey(PairMembers(s, boardId, userId))
  IN IF memberId # NullInt
     THEN [s |-> [s EXCEPT !.boardMembers = MapDelete(@, memberId)], ret |-> TRUE]
     ELSE [s |-> s, ret |-> FALSE]

\* updateBoardMemberRole writing the role to every Membership of the board.
updateBoardMemberRole_WholeBoard(s, boardId, userId, role) ==
  LET memberId == FirstKey(PairMembers(s, boardId, userId))
  IN IF memberId # NullInt
     THEN LET updatedMember == Spread(s.boardMembers[memberId], [role |-> role])
          IN [s |-> [s EXCEPT !.boardMembers =
                       [m \in DOMAIN @ |->
                          IF @[m].boardId = boardId
                          THEN Spread(@[m], [role |-> role]) ELSE @[m]]],
              ret |-> updatedMember]
     ELSE [s |-> s, ret |-> Absent]

updateBoardMemberRole(s, boardId, userId, role) ==
  LET memberId == FirstKey(PairMembers(s, boardId, userId))
  IN IF memberId # NullInt
     THEN LET updatedMember == Spread(s.boardMembers[memberId], [role |-> role])
          IN [s |-> [s EXCEPT !.boardMembers = MapSet(@, memberId, updatedMember)],
              ret |-> updatedMember]
     ELSE [s |-> s, ret |-> Absent]

\* The board createBoard builds from its argument and the time of the call.
NewBoard(id, insertBoard, t) ==
  [id |-> id,
   title |-> insertBoard.title,
   description |-> OrElseStr(insertBoard.description, NullStr),
   color |-> OrElseStr(insertBoard.color, "primary"),
   createdBy |-> insertBoard.createdBy,
   createdAt |-> t]

\* createBoard up to its await: the body of addBoardMember runs inside the
\* call expression, before the await suspends createBoard.
createBoard(s, insertBoard, t) ==
  LET id    == s.currentBoardId
      board == NewBoard(id, insertBoard, t)
      s1    == [s EXCEPT !.currentBoardId = id + 1, !.boards = MapSet(@, id, board)]
      added == addBoardMember(s1, [boardId |-> id, userId |-> insertBoard.createdBy,
                                   role |-> "admin"])
  IN [s |-> added.s, ret |-> board]

\* updateBoard with the guard for a missing board left out.
updateBoard_NoGuard(s, id, updates) ==
  LET board        == IF id \in DOMAIN s.boards THEN s.boards[id] ELSE EmptyMap
      updatedBoard == Spread(board, updates)
  IN [s |-> [s EXCEPT !.boards = MapSet(@, id, updatedBoard)], ret |-> updatedBoard]

updateBoard(s, id, updates) ==
  IF id \notin DOMAIN s.boards
  THEN [s |-> s, ret |-> Absent]
  ELSE LET updatedBoard == Spread(s.boards[id], updates)
       IN [s |-> [s EXCEPT !.boards = MapSet(@, id, updatedBoard)], ret |-> updatedBoard]

\* deleteBoard running its cascade whether or not a board was deleted.
deleteBoard_CascadeAlways(s, id) ==
  LET deleted == id \in DOMAIN s.boards
  IN [s |-> [s EXCEPT
               !.boards = MapDelete(@, id),
               !.boardMembers = [i \in DOMAIN @ \ MembersOf(s, id) |-> @[i]],
               !.todos = [i \in DOMAIN @ \ TodosOf(s, id) |-> @[i]]],
      ret |-> deleted]

\* deleteBoard with the cascade onto the todos left out.
deleteBoard_KeepTodos(s, id) ==
  LET deleted == id \in DOMAIN s.boards
  IN [s |-> IF deleted
            THEN [s EXCEPT
                    !.boards = MapDelete(@, id),
                    !.boardMembers = [i \in DOMAIN @ \ MembersOf(s, id) |-> @[i]]]
            ELSE s,
      ret |-> deleted]

\* deleteBoard whose second cascade loop forgets the boardId test.
deleteBoard_EveryTodo(s, id) ==
  LET deleted == id \in DOMAIN s.boards
  IN [s |-> IF deleted
            THEN [s EXCEPT
                    !.boards = MapDelete(@, id),
                    !.boardMembers = [i \in DOMAIN @ \ MembersOf(s, id) |-> @[i]],
                    !.todos = EmptyMap]
            ELSE s,
      ret |-> deleted]

deleteBoard(s, id) ==
  LET deleted == id \in DOMAIN s.boards
  IN [s |-> IF deleted
            THEN [s EXCEPT
                    !.boards = MapDelete(@, id),
                    !.boardMembers = [i \in DOMAIN @ \ MembersOf(s, id) |-> @[i]],
                    !.todos = [i \in DOMAIN @ \ TodosOf(s, id) |-> @[i]]]
            ELSE s,
      ret |-> deleted]

\* createTodo without the `|| null` on the description.
createTodo_NoDescriptionDefault(s, insertTodo, t) ==
  LET id   == s.currentTodoId
      todo == [id |-> id,
               boardId |-> insertTodo.boardId,
               title |-> insertTodo.title,
               createdBy |-> insertTodo.createdBy,
               createdAt |-> t,
               updatedAt |-> t,
               status |-> OrElseStr(insertTodo.status, "todo"),
               priority |-> OrElseStr(insertTodo.priority, "medium"),
               description |-> insertTodo.description,
               dueDate |-> OrElseInt(insertTodo.dueDate, NullInt),
               assignedTo |-> OrElseInt(insertTodo.assignedTo, NullInt)]
  IN [s   |-> [s EXCEPT !.currentTodoId = id + 1, !.todos = MapSet(@, id, todo)],
      ret |-> todo]

\* createTodo taking the handle from the size of the Map instead of the counter.
createTodo_HandleFromSize(s, insertTodo, t) ==
  LET id   == Cardinality(DOMAIN s.todos) + 1
      todo == [id |-> id,
               boardId |-> insertTodo.boardId,
               title |-> insertTodo.title,
               createdBy |-> insertTodo.createdBy,
               createdAt |-> t,
               updatedAt |-> t,
               status |-> OrElseStr(insertTodo.status, "todo"),
               priority |-> OrElseStr(insertTodo.priority, "medium"),
               description |-> OrElseStr(insertTodo.description, NullStr),
               dueDate |-> OrElseInt(insertTodo.dueDate, NullInt),
               assignedTo |-> OrElseInt(insertTodo.assignedTo, NullInt)]
  IN [s   |-> [s EXCEPT !.currentTodoId = IF id >= @ THEN id + 1 ELSE @,
                        !.todos = MapSet(@, id, todo)],
      ret |-> todo]

createTodo(s, insertTodo, t) ==
  LET id   == s.currentTodoId
      todo == [id |-> id,
               boardId |-> insertTodo.boardId,
               title |-> insertTodo.title,
               createdBy |-> insertTodo.createdBy,
               createdAt |-> t,
               updatedAt |-> t,
               status |-> OrElseStr(insertTodo.status, "todo"),
               priority |-> OrElseStr(insertTodo.priority, "medium"),
               description |-> OrElseStr(insertTodo.description, NullStr),
               dueDate |-> OrElseInt(insertTodo.dueDate, NullInt),
               assignedTo |-> OrElseInt(insertTodo.assignedTo, NullInt)]
  IN [s   |-> [s EXCEPT !.currentTodoId = id + 1, !.todos = MapSet(@, id, todo)],
      ret |-> todo]

\* updateTodo refusing to change the status of a completed todo.
updateTodo_CompletedIsFinal(s, id, updates, t) ==
  IF id \notin DOMAIN s.todos
  THEN [s |-> s, ret |-> Absent]
  ELSE LET todo == s.todos[id]
           kept == IF todo.status = "completed" THEN [status |-> "completed"] ELSE EmptyMap
           updatedTodo == Spread(Spread(Spread(todo, updates), kept), [updatedAt |-> t])
       IN [s |-> [s EXCEPT !.todos = MapSet(@, id, updatedTodo)], ret |-> updatedTodo]

\* updateTodo merging the updates without refreshing updatedAt.
updateTodo_NoRefresh(s, id, updates, t) ==
  IF id \notin DOMAIN s.todos
  THEN [s |-> s, ret |-> Absent]
  ELSE LET updatedTodo == Spread(s.todos[id], updates)
       IN [s |-> [s EXCEPT !.todos = MapSet(@, id, updatedTodo)], ret |-> updatedTodo]

updateTodo(s, id, updates, t) ==
  IF id \notin DOMAIN s.todos
  THEN [s |-> s, ret |-> Absent]
  ELSE LET updatedTodo == Spread(Spread(s.todos[id], updates), [updatedAt |-> t])
       IN [s |-> [s EXCEPT !.todos = MapSet(@, id, updatedTodo)], ret |-> updatedTodo]

deleteTodo(s, id) ==
  [s |-> [s EXCEPT !.todos = MapDelete(@, id)], ret |-> id \in DOMAIN s.todos]

\* ------------------------------------------------------- arguments tried
UserArgs  == {1, 2}
BoardArgs == {1, 2}
TodoArgs  == {1, 2}
Roles     == {"viewer", "editor", "admin"}

Statuses   == {"todo", "in-progress", "completed"}
Priorities == {"low", "medium", "high", "critical"}

\* What a direct caller of the store passes.
InsertUsers ==
  {[username |-> "alice", password |-> "$2a$10$pw", phoneNumber |-> "+15550001",
    displayName |-> Undefined, photoURL |-> Undefined]}
InsertBoards ==
  {[title |-> "Launch Plan", description |-> Undefined, color |-> Undefined,
    createdBy |-> u] : u \in UserArgs}
InsertMembers == [boardId : BoardArgs, userId : UserArgs, role : {"viewer", Undefined}]
InsertTodos ==
  {[boardId |-> b, title |-> "Write spec", createdBy |-> 1, status |-> Undefined,
    priority |-> Undefined, description |-> Undefined, dueDate |-> NullInt,
    assignedTo |-> NullInt] : b \in BoardArgs}
\* Todos with and without an assignee.
AssignedTodos ==
  {[boardId |-> b, title |-> "Write spec", createdBy |-> 1, status |-> Undefined,
    priority |-> Undefined, description |-> Undefined, dueDate |-> NullInt,
    assignedTo |-> a] : b \in BoardArgs, a \in {NullInt} \cup UserArgs}
\* Todos with the optional fields supplied, not supplied, or supplied in part.
SuppliedTodos ==
  {[boardId |-> 1, title |-> "Write spec", createdBy |-> 1, status |-> st,
    priority |-> pr, description |-> de, dueDate |-> du, assignedTo |-> a] :
     <<st, pr, de, du, a>> \in
       {<<Undefined, Undefined, Undefined, NullInt, NullInt>>,
        <<"in-progress", "high", "Draft", 1, 1>>,
        <<"completed", Undefined, Undefined, NullInt, NullInt>>,
        <<Undefined, "low", "Draft", NullInt, NullInt>>,
        <<Undefined, Undefined, Undefined, 2, 2>>}}
\* Partial<Board> objects a caller of updateBoard may pass.
BoardUpdates ==
  {EmptyMap, [title |-> "Renamed"], [color |-> "blue", description |-> "Q3"],
   [createdBy |-> 2], [createdAt |-> NullInt]}
TodoUpdates ==
  {EmptyMap, [status |-> "completed"], [status |-> "todo"], [updatedAt |-> NullInt]}

\* What a client posts to /api/auth/register; the last one lacks the phone number.
RegisterBodies ==
  [username : {"alice", "bob"}, password : {"pw"},
   phoneNumber : {"+15550001", "+15550002", Undefined},
   displayName : {Undefined}, photoURL : {Undefined}]

\* What a client puts to /api/boards/:id: any subset of the three fields.
PutBoardBodies ==
  {[title |-> "Renamed"], [color |-> "blue"],
   [title |-> "Renamed", description |-> "Q3", color |-> "blue"]}

\* What a client posts to /api/boards/:id/members (the last one lacks the
\* userId) and patches to /api/boards/:boardId/members/:userId.
MemberBodies ==
  {[userId |-> 2, role |-> "viewer"], [userId |-> 2, role |-> "owner"],
   [userId |-> 2], [role |-> "admin"]}
RoleBodies == {[role |-> "admin"], [role |-> "owner"], EmptyMap}

\* What a client posts to /api/boards/:id/todos and puts to /api/todos/:id.
PostTodoBodies ==
  {[boardId |-> 1, title |-> "Write spec", createdBy |-> 1, status |-> st,
    priority |-> pr, description |-> Undefined, dueDate |-> NullInt,
    assignedTo |-> NullInt] : st \in {Undefined, "archived"}, pr \in {Undefined, "urgent"}}
PutTodoBodies ==
  {[status |-> "completed"], [status |-> "archived"], [priority |-> "urgent"]}

\* The clients (address and user agent) requests come from, and the
\* X-CSRF-Token values they carry: the one the server issued to the client,
\* another one, or none.  The client library sends the token in the header
\* and again as _csrf in the body.
Clients == {"10.0.0.1-Mozilla", "10.0.0.2-curl"}
HttpRequests ==
  {[method |-> "POST", client |-> c, token |-> t,
    body |-> IF t = Undefined THEN b ELSE Spread(b, [_csrf |-> t])] :
     c \in Clients, t \in {"hmac:10.0.0.1-Mozilla", "forged", Undefined},
     b \in {x \in InsertBoards : x.createdBy = 1}}

\* The requests in flight.
Reqs == 1..MaxReq

\* A request slot before its first request: no route, no response.
NoRequest == [route |-> "", body |-> EmptyMap, local |-> EmptyMap, status |-> NullInt]

\* ------------------------------------------------------------------ state
Init ==
  /\ users = NewStore.users
  /\ boards = NewStore.boards
  /\ boardMembers = NewStore.boardMembers
  /\ todos = NewStore.todos
  /\ currentUserId = NewStore.currentUserId
  /\ currentBoardId = NewStore.currentBoardId
  /\ currentBoardMemberId = NewStore.currentBoardMemberId
  /\ currentTodoId = NewStore.currentTodoId
  /\ now = 1
  /\ pc = [r \in 1..MaxReq |-> "idle"]
  /\ rq = [r \in 1..MaxReq |-> NoRequest]

\* The store becomes s.
Becomes(s) ==
  /\ users' = s.users
  /\ boards' = s.boards
  /\ boardMembers' = s.boardMembers
  /\ todos' = s.todos
  /\ currentUserId' = s.currentUserId
  /\ currentBoardId' = s.currentBoardId
  /\ currentBoardMemberId' = s.currentBoardMemberId
  /\ currentTodoId' = s.currentTodoId

\* A direct call of a store operation, run to completion: res is the store
\* after it and the value it returned.
Call(res) ==
  /\ Becomes(res.s)
  /\ UNCHANGED <<now, pc, rq>>

\* The clock advances by a millisecond.
Tick ==
  /\ now < MaxTime
  /\ now' = now + 1
  /\ UNCHANGED <<storeVars, pc, rq>>

CreateUser(insertUser) ==
  /\ currentUserId <= MaxUsers
  /\ Call(createUser(Store, insertUser))

CreateBoard(insertBoard) ==
  /\ currentBoardId <= MaxBoards
  /\ currentBoardMemberId <= MaxMembers
  /\ Call(createBoard(Store, insertBoard, now))

DeleteBoard(id) ==
  Call(deleteBoard(Store, id))

AddBoardMember(insertMember) ==
  /\ currentBoardMemberId <= MaxMembers
  /\ Call(addBoardMember(Store, insertMember))

RemoveBoardMember(boardId, userId) ==
  Call(removeBoardMember(Store, boardId, userId))

UpdateBoardMemberRole(boardId, userId, role) ==
  Call(updateBoardMemberRole(Store, boardId, userId, role))

UpdateBoard(id, updates) ==
  Call(updateBoard(Store, id, updates))

CreateTodo(insertTodo) ==
  /\ currentTodoId <= MaxTodos
  /\ Call(createTodo(Store, insertTodo, now))

UpdateTodo(id, updates) ==
  Call(updateTodo(Store, id, updates, now))

DeleteTodo(id) ==
  Call(deleteTodo(Store, id))

\* A read: the store stays as it is and ret is what the caller gets.
Read(ret) == Call([s |-> Store, ret |-> ret])

GetUser(id) == Read(getUser(Store, id))

GetUserByUsername(username) == Read(getUserByUsername(Store, username))

GetUserByPhoneNumber(phoneNumber) == Read(getUserByPhoneNumber(Store, phoneNumber))

GetBoards == Read(getBoards(Store))

\* getBoardsByUser dropping, as it goes, the memberships whose board is gone.
GetBoardsByUser_PruneDangling(userId) ==
  Call([s |-> [Store EXCEPT !.boardMembers =
                 [i \in {m \in DOMAIN @ : @[m].userId # userId
                                             \/ @[m].boardId \in DOMAIN boards} |-> @[i]]],
        ret |-> getBoardsByUser(Store, userId)])

GetBoardsByUser(userId) == Read(getBoardsByUser(Store, userId))

GetBoard(id) == Read(getBoard(Store, id))

GetBoardWithMembers(id) == Read(getBoardWithMembers(Store, id))

GetBoardMembers(boardId) == Read(getBoardMembers(Store, boardId))

GetTodos(boardId) == Read(getTodos(Store, boardId))

GetTodo(id) == Read(getTodo(Store, id))

\* ------------------------------------------------------- specifications
\* Direct calls of the store in any order, each run to completion.  The four
\* Maps vary independently, so each specification drives the operations of one
\* part of the store and leaves the rest of it as constructed.

\* Boards and memberships.
Next ==
  \/ \E b \in InsertBoards : CreateBoard(b)
  \/ \E id \in BoardArgs : DeleteBoard(id)
  \/ \E m \in InsertMembers : AddBoardMember(m)
  \/ \E b \in BoardArgs, u \in UserArgs : RemoveBoardMember(b, u)
  \/ \E b \in BoardArgs, u \in UserArgs, role \in Roles : UpdateBoardMemberRole(b, u, role)

Spec == Init /\ [][Next]_vars

\* Boards and their todos, and the clock.
NextTodos ==
  \/ Tick
  \/ \E b \in InsertBoards : CreateBoard(b)
  \/ \E id \in BoardArgs : DeleteBoard(id)
  \/ \E t \in InsertTodos : CreateTodo(t)
  \/ \E id \in TodoArgs, up \in TodoUpdates : UpdateTodo(id, up)
  \/ \E id \in TodoArgs : DeleteTodo(id)

SpecTodos == Init /\ [][NextTodos]_vars

\* Creation and deletion of all four kinds of entity.
NextHandles ==
  \/ \E u \in InsertUsers : CreateUser(u)
  \/ \E b \in InsertBoards : CreateBoard(b)
  \/ \E id \in BoardArgs : DeleteBoard(id)
  \/ \E m \in InsertMembers : m.role = Undefined /\ AddBoardMember(m)
  \/ \E b \in BoardArgs, u \in UserArgs : RemoveBoardMember(b, u)
  \/ \E t \in InsertTodos : CreateTodo(t)
  \/ \E id \in TodoArgs : DeleteTodo(id)

SpecHandles == Init /\ [][NextHandles]_vars

\* Boards created, updated and deleted.
NextBoards ==
  \/ Tick
  \/ \E b \in InsertBoards : CreateBoard(b)
  \/ \E id \in BoardArgs, up \in BoardUpdates : UpdateBoard(id, up)
  \/ \E id \in BoardArgs : DeleteBoard(id)

SpecBoards == Init /\ [][NextBoards]_vars

\* The read operations, on stores that creations have filled.
Reads ==
  \/ \E id \in UserArgs : GetUser(id)
  \/ \E u \in InsertUsers : GetUserByUsername(u.username)
  \/ \E u \in InsertUsers : GetUserByPhoneNumber(u.phoneNumber)
  \/ GetBoards
  \/ \E id \in UserArgs : GetBoardsByUser(id)
  \/ \E id \in BoardArgs : GetBoard(id)
  \/ \E id \in BoardArgs : GetBoardWithMembers(id)
  \/ \E id \in BoardArgs : GetBoardMembers(id)
  \/ \E id \in BoardArgs : GetTodos(id)
  \/ \E id \in TodoArgs : GetTodo(id)

NextReads ==
  \/ \E u \in InsertUsers : CreateUser(u)
  \/ \E b \in InsertBoards : CreateBoard(b)
  \/ \E m \in InsertMembers : m.role = Undefined /\ AddBoardMember(m)
  \/ \E t \in InsertTodos : CreateTodo(t)
  \/ Reads

SpecReads == Init /\ [][NextReads]_vars

\* Todos created and moved from status to status, and the clock.
NextStatus ==
  \/ Tick
  \/ \E t \in InsertTodos : CreateTodo(t)
  \/ \E id \in TodoArgs, st \in Statuses : UpdateTodo(id, [status |-> st])

SpecStatus == Init /\ [][NextStatus]_vars

\* Todos created with and without their optional fields, and the clock.
NextDefaults ==
  \/ Tick
  \/ \E t \in SuppliedTodos : CreateTodo(t)
  \/ \E id \in TodoArgs : DeleteTodo(id)

SpecDefaults == Init /\ [][NextDefaults]_vars

\* Accounts, and todos assigned to account handles.
NextAssign ==
  \/ \E u \in InsertUsers : CreateUser(u)
  \/ \E t \in AssignedTodos : CreateTodo(t)
  \/ \E id \in TodoArgs : DeleteTodo(id)

SpecAssign == Init /\ [][NextAssign]_vars

\* ------------------------------------------------------ request handlers
\* A handler runs from one await to the next without interruption; between
\* two of its steps any other handler may take steps.  A call of an async
\* store method runs the method's body up to the method's first await inside
\* the calling step; no store method awaits before its last write, so all of
\* a method's reads and writes belong to the step that calls it.  pc[r] is
\* where request r is suspended, rq[r] holds its body, locals and response.

\* insertUserSchema.parse: username, password and phoneNumber are required.
ValidInsertUser(body) ==
  /\ body.username # Undefined
  /\ body.password # Undefined
  /\ body.phoneNumber # Undefined

\* bcrypt.hash: the stored credential is never the password itself (the salt
\* bcrypt draws is left out: nothing reads the hash back here).
hashPassword(password) == "$2a$10$" \o password

\* Request r is suspended at position at, or has answered (at = "idle").
Goto(r, at, route, body, local, status) ==
  /\ pc' = [pc EXCEPT ![r] = at]
  /\ rq' = [rq EXCEPT ![r] = [route |-> route, body |-> body, local |-> local,
                              status |-> status]]

\* The register requests that have not created their account yet.
Registering == {q \in Reqs : pc[q] \in {"register:20", "register:26"}}

\* POST /api/auth/register up to the await of getUserByPhoneNumber, whose
\* lookup runs inside the call.
PostAuthRegister(r, body) ==
  /\ pc[r] = "idle"
  /\ currentUserId + Cardinality(Registering) <= MaxUsers
  /\ IF ValidInsertUser(body)
     THEN Goto(r, "register:20", "POST /api/auth/register", body,
               [existingUser |-> getUserByPhoneNumber(Store, body.phoneNumber)], NullInt)
     ELSE Goto(r, "idle", "POST /api/auth/register", body, EmptyMap, 400)
  /\ UNCHANGED <<storeVars, now>>

\* ... resumed with existingUser: 409, or on to the await of hashPassword.
RegisterChecked(r) ==
  /\ pc[r] = "register:20"
  /\ IF rq[r].local.existingUser # Absent
     THEN Goto(r, "idle", rq[r].route, rq[r].body, EmptyMap, 409)
     ELSE Goto(r, "register:26", rq[r].route, rq[r].body, rq[r].local, NullInt)
  /\ UNCHANGED <<storeVars, now>>

\* ... resumed with the hash: createUser, whose body runs inside the call.
RegisterHashed(r) ==
  /\ pc[r] = "register:26"
  /\ LET hashedPassword == hashPassword(rq[r].body.password)
         res == createUser(Store, Spread(rq[r].body, [password |-> hashedPassword]))
     IN /\ Becomes(res.s)
        /\ Goto(r, "register:29", rq[r].route, rq[r].body, [user |-> res.ret], NullInt)
  /\ UNCHANGED now

\* ... resumed with the user: 201.
RegisterCreated(r) ==
  /\ pc[r] = "register:29"
  /\ Goto(r, "idle", rq[r].route, rq[r].body, EmptyMap, 201)
  /\ UNCHANGED <<storeVars, now>>

\* The handlers below await one store call; `reply` is the status they send
\* once the call's promise has resolved.

\* POST /api/boards up to the await of createBoard, which has run up to its own
\* await of addBoardMember.  member is the membership addBoardMember found or
\* inserted for the creator.
PostBoards(r, body) ==
  /\ pc[r] = "idle"
  /\ currentBoardId <= MaxBoards
  /\ currentBoardMemberId <= MaxMembers
  /\ LET res == createBoard(Store, body, now)
     IN /\ Becomes(res.s)
        /\ Goto(r, "await", "POST /api/boards", body,
                [board |-> res.ret.id,
                 member |-> FirstKey({i \in MembersOf(res.s, res.ret.id) :
                                        res.s.boardMembers[i].userId = body.createdBy}),
                 reply |-> 201], NullInt)
  /\ UNCHANGED now

\* DELETE /api/boards/:id with an await put between deleteBoard's removal of the
\* board and its two cascade loops.
DeleteBoardsId_AwaitBeforeCascade(r, id) ==
  \/ /\ pc[r] = "idle"
     /\ boards' = MapDelete(boards, id)
     /\ Goto(r, IF id \in DOMAIN boards THEN "cascade" ELSE "await",
             "DELETE /api/boards/:id", [id |-> id],
             [deleted |-> id \in DOMAIN boards,
              doomedMembers |-> IF id \in DOMAIN boards THEN MembersOf(Store, id) ELSE {},
              doomedTodos |-> IF id \in DOMAIN boards THEN TodosOf(Store, id) ELSE {},
              reply |-> IF id \in DOMAIN boards THEN 204 ELSE 404], NullInt)
     /\ UNCHANGED <<users, boardMembers, todos, currentUserId, currentBoardId,
                    currentBoardMemberId, currentTodoId, now>>
  \/ /\ pc[r] = "cascade"
     /\ rq[r].body.id = id
     /\ boardMembers' = [i \in DOMAIN boardMembers \ MembersOf(Store, id) |-> boardMembers[i]]
     /\ todos' = [i \in DOMAIN todos \ TodosOf(Store, id) |-> todos[i]]
     /\ Goto(r, "await", rq[r].route, rq[r].body, rq[r].local, NullInt)
     /\ UNCHANGED <<users, boards, currentUserId, currentBoardId,
                    currentBoardMemberId, currentTodoId, now>>

\* DELETE /api/boards/:id up to the await of deleteBoard, which has run to its
\* end.  doomedMembers and doomedTodos are the handles its cascade is to delete.
DeleteBoardsId(r, id) ==
  /\ pc[r] = "idle"
  /\ LET res == deleteBoard(Store, id)
     IN /\ Becomes(res.s)
        /\ Goto(r, "await", "DELETE /api/boards/:id", [id |-> id],
                [deleted |-> res.ret,
                 doomedMembers |-> IF res.ret THEN MembersOf(Store, id) ELSE {},
                 doomedTodos |-> IF res.ret THEN TodosOf(Store, id) ELSE {},
                 reply |-> IF res.ret THEN 204 ELSE 404], NullInt)
  /\ UNCHANGED now

\* The updates PUT /api/boards/:id builds from the request body.
BoardFields(body) ==
  [title |-> Prop(body, "title"),
   description |-> Prop(body, "description"),
   color |-> Prop(body, "color")]

\* PUT /api/boards/:id up to the await of updateBoard.
PutBoardsId(r, id, body) ==
  /\ pc[r] = "idle"
  /\ LET updates == BoardFields(body)
         res == updateBoard(Store, id, updates)
     IN /\ Becomes(res.s)
        /\ Goto(r, "await", "PUT /api/boards/:id", body,
                [board |-> id, reply |-> IF res.ret = Absent THEN 404 ELSE 200], NullInt)
  /\ UNCHANGED now

\* insertBoardMemberSchema.parse: boardId and userId are required numbers,
\* role is an optional string.
ValidInsertMember(data) ==
  /\ "boardId" \in DOMAIN data
  /\ "userId" \in DOMAIN data

\* POST /api/boards/:id/members up to the await of addBoardMember.
PostBoardsIdMembers(r, id, body) ==
  /\ pc[r] = "idle"
  /\ currentBoardMemberId <= MaxMembers
  /\ LET data == Spread(body, [boardId |-> id])
     IN IF ValidInsertMember(data)
        THEN LET memberData == [boardId |-> data.boardId, userId |-> data.userId,
                                role |-> Prop(data, "role")]
                 res == addBoardMember(Store, memberData)
             IN /\ Becomes(res.s)
                /\ Goto(r, "await", "POST /api/boards/:id/members", body,
                        [member |-> res.ret.id, reply |-> 201], NullInt)
        ELSE /\ Goto(r, "idle", "POST /api/boards/:id/members", body, EmptyMap, 400)
             /\ UNCHANGED storeVars
  /\ UNCHANGED now

\* DELETE /api/boards/:boardId/members/:userId up to the await of
\* removeBoardMember.
DeleteBoardsIdMembersId(r, boardId, userId) ==
  /\ pc[r] = "idle"
  /\ LET res == removeBoardMember(Store, boardId, userId)
     IN /\ Becomes(res.s)
        /\ Goto(r, "await", "DELETE /api/boards/:boardId/members/:userId", EmptyMap,
                [reply |-> IF res.ret THEN 204 ELSE 404], NullInt)
  /\ UNCHANGED now

\* PATCH /api/boards/:boardId/members/:userId up to the await of
\* updateBoardMemberRole.
PatchBoardsIdMembersId(r, boardId, userId, body) ==
  /\ pc[r] = "idle"
  /\ LET role == Prop(body, "role")
     IN IF FalsyStr(role) \/ role \notin {"viewer", "editor", "admin"}
        THEN /\ Goto(r, "idle", "PATCH /api/boards/:boardId/members/:userId", body,
                     EmptyMap, 400)
             /\ UNCHANGED storeVars
        ELSE LET res == updateBoardMemberRole(Store, boardId, userId, role)
             IN /\ Becomes(res.s)
                /\ Goto(r, "await", "PATCH /api/boards/:boardId/members/:userId", body,
                        [reply |-> IF res.ret = Absent THEN 404 ELSE 200], NullInt)
  /\ UNCHANGED now

\* POST /api/boards/:id/todos up to the await of createTodo.
PostBoardsIdTodos(r, id, body) ==
  /\ pc[r] = "idle"
  /\ currentTodoId <= MaxTodos
  /\ LET todoData == Spread(body, [boardId |-> id])
         res == createTodo(Store, todoData, now)
     IN /\ Becomes(res.s)
        /\ Goto(r, "await", "POST /api/boards/:id/todos", todoData,
                [todo |-> res.ret.id, reply |-> 201], NullInt)
  /\ UNCHANGED now

\* PUT /api/todos/:id up to the await of updateTodo, which gets the request
\* body as it came.
PutTodosId(r, id, body) ==
  /\ pc[r] = "idle"
  /\ LET updates == body
         res == updateTodo(Store, id, updates, now)
     IN /\ Becomes(res.s)
        /\ Goto(r, "await", "PUT /api/todos/:id", body,
                [todo |-> id, reply |-> IF res.ret = Absent THEN 404 ELSE 200], NullInt)
  /\ UNCHANGED now

\* generateCsrfToken: an HMAC, under the server's secret, of the client's
\* address and user agent.
generateCsrfToken(client) == "hmac:" \o client

\* csrfProtection: "next" or the status it answers with.
csrfProtection(req) ==
  IF req.method \in {"GET", "HEAD", "OPTIONS"}
  THEN "next"
  ELSE LET csrfToken == OrElseStr(req.token, Prop(req.body, "_csrf"))
           expectedToken == generateCsrfToken(req.client)
       IN IF FalsyStr(csrfToken) \/ csrfToken # expectedToken THEN "403" ELSE "next"

\* The middleware the app mounts before its routes, in order.
AppMiddleware == <<"securityHeaders", "express.json", "express.urlencoded",
                   "setCsrfToken", "logger">>

\* One middleware applied to a request; all but csrfProtection call next().
Middleware(name, req) ==
  IF name = "csrfProtection" THEN csrfProtection(req) ELSE "next"

\* The chain applied to a request: "next" when the request reaches the routes.
RECURSIVE RunMiddleware(_, _)
RunMiddleware(chain, req) ==
  IF chain = <<>> THEN "next"
  ELSE IF Middleware(Head(chain), req) # "next" THEN Middleware(Head(chain), req)
  ELSE RunMiddleware(Tail(chain), req)

\* A POST /api/boards request passes through the app: the middleware chain,
\* then the route's handler.
AppPostBoards(r, req) ==
  /\ pc[r] = "idle"
  /\ IF RunMiddleware(AppMiddleware, req) = "next"
     THEN PostBoards(r, req.body)
     ELSE /\ Goto(r, "idle", "POST /api/boards", req.body, EmptyMap, 403)
          /\ UNCHANGED <<storeVars, now>>

\* The store call's promise has resolved: the handler sends its response.
Respond(r) ==
  /\ pc[r] = "await"
  /\ Goto(r, "idle", rq[r].route, EmptyMap, EmptyMap, rq[r].local.reply)
  /\ UNCHANGED <<storeVars, now>>

\* Requests arrive at any time and their handlers interleave at their awaits.

\* Registrations.
NextRegister ==
  \E r \in Reqs :
    \/ \E body \in RegisterBodies : PostAuthRegister(r, body)
    \/ RegisterChecked(r)
    \/ RegisterHashed(r)
    \/ RegisterCreated(r)

SpecRegister == Init /\ [][NextRegister]_vars

\* Requests that create and delete boards and create todos.
NextRoutes ==
  \E r \in Reqs :
    \/ \E body \in InsertBoards : body.createdBy = 1 /\ PostBoards(r, body)
    \/ \E id \in BoardArgs : DeleteBoardsId(r, id)
    \/ \E id \in BoardArgs, body \in InsertTodos :
         body.boardId = id /\ PostBoardsIdTodos(r, id, body)
    \/ Respond(r)

SpecRoutes == Init /\ [][NextRoutes]_vars

\* Requests that create and update boards.
NextBoardRoutes ==
  \E r \in Reqs :
    \/ \E body \in InsertBoards : body.createdBy = 1 /\ PostBoards(r, body)
    \/ \E id \in BoardArgs, body \in PutBoardBodies : PutBoardsId(r, id, body)
    \/ Respond(r)

SpecBoardRoutes == Init /\ [][NextBoardRoutes]_vars

\* Requests on the memberships of boards.
NextMemberRoutes ==
  \E r \in Reqs :
    \/ \E body \in InsertBoards : body.createdBy = 1 /\ PostBoards(r, body)
    \/ \E id \in BoardArgs, body \in MemberBodies : PostBoardsIdMembers(r, id, body)
    \/ \E b \in BoardArgs, u \in UserArgs : DeleteBoardsIdMembersId(r, b, u)
    \/ \E b \in BoardArgs, u \in UserArgs, body \in RoleBodies :
         PatchBoardsIdMembersId(r, b, u, body)
    \/ Respond(r)

SpecMemberRoutes == Init /\ [][NextMemberRoutes]_vars

\* Requests that create and update todos.
NextTodoRoutes ==
  \E r \in Reqs :
    \/ \E id \in BoardArgs, body \in PostTodoBodies : PostBoardsIdTodos(r, id, body)
    \/ \E id \in TodoArgs, body \in PutTodoBodies : PutTodosId(r, id, body)
    \/ Respond(r)

SpecTodoRoutes == Init /\ [][NextTodoRoutes]_vars

\* Requests to POST /api/boards with and without the CSRF token, and
\* requests that delete boards.
NextApp ==
  \E r \in Reqs :
    \/ \E req \in HttpRequests : AppPostBoards(r, req)
    \/ \E id \in BoardArgs : DeleteBoardsId(r, id)
    \/ Respond(r)

SpecApp == Init /\ [][NextApp]_vars

\* What a client may put to /api/todos/:id beside the fields a form edits:
\* the todo's own handle, its board, its creator and its creation time.
PutTodoIdentityBodies ==
  {[title |-> "Renamed"], [id |-> 2], [boardId |-> 2],
   [createdBy |-> 2, createdAt |-> NullInt]}

\* Requests that create todos and put arbitrary bodies to them.
NextPutTodos ==
  \E r \in Reqs :
    \/ \E body \in {b \in PostTodoBodies : b.status = Undefined /\ b.priority = Undefined} :
         PostBoardsIdTodos(r, 1, body)
    \/ \E id \in TodoArgs, body \in PutTodoIdentityBodies : PutTodosId(r, id, body)
    \/ Respond(r)

SpecPutTodos == Init /\ [][NextPutTodos]_vars

\* ------------------------------------------------------- the phone login
\* The browser runs sendOTP and verifyOTP of the client's auth module in one
\* request slot; the HTTP requests it sends are handled in the other slots.
\* The identity provider (signInWithPhoneNumber, confirmationResult.confirm)
\* is the environment: each of its promises resolves or rejects.
Browser == 1
Servers == Reqs \ {Browser}

\* What a user types into the phone field, with and without country code.
PhoneInputs == {"+15550001", "5550002"}
StartsWithPlus(phoneNumber) == phoneNumber \in {"+15550001"}
FormattedPhone(phoneNumber) ==
  IF StartsWithPlus(phoneNumber) THEN phoneNumber ELSE "+91" \o phoneNumber

\* phoneNumber.replace(/\D/g, '').slice(-10)
LastTenDigits(phoneNumber) ==
  IF phoneNumber = "+15550001" THEN "5550001"
  ELSE IF phoneNumber = "+915550002" THEN "915550002"
  ELSE phoneNumber

\* What other HTTP clients post to /api/auth/login.
LoginBodies ==
  {[phoneNumber |-> "+15550001", password |-> "pw"],
   [phoneNumber |-> "+15550001", password |-> "guess"],
   [phoneNumber |-> "+15550001"],
   [password |-> "pw"],
   [phoneNumber |-> "+915550002", password |-> "pw"]}

\* bcrypt.compare
comparePassword(password, hashedPassword) == hashedPassword = hashPassword(password)

\* const { password, ...userWithoutPassword } = user
WithoutPassword(user) == [f \in DOMAIN user \ {"password"} |-> user[f]]

\* A handler's position and request record after its first step.
Handling(at, route, body, local, status) ==
  [at |-> at, rq |-> [route |-> route, body |-> body, local |-> local, status |-> status]]

\* POST /api/auth/verify-phone up to the await of getUserByPhoneNumber.
VerifyPhoneReceived(body) ==
  IF FalsyStr(Prop(body, "phoneNumber"))
  THEN Handling("idle", "POST /api/auth/verify-phone", body, EmptyMap, 400)
  ELSE Handling("verify-phone:54", "POST /api/auth/verify-phone", body,
                [user |-> getUserByPhoneNumber(Store, body.phoneNumber)], NullInt)

\* ... resumed with the user: 200 and { exists }.
VerifyPhoneLooked(r) ==
  /\ pc[r] = "verify-phone:54"
  /\ Goto(r, "idle", rq[r].route, rq[r].body,
          [json |-> [exists |-> rq[r].local.user # Absent]], 200)
  /\ UNCHANGED <<storeVars, now>>

\* POST /api/auth/login up to the await of getUserByPhoneNumber.
LoginReceived(body) ==
  IF FalsyStr(Prop(body, "phoneNumber"))
  THEN Handling("idle", "POST /api/auth/login", body, EmptyMap, 400)
  ELSE IF FalsyStr(Prop(body, "password"))
  THEN Handling("idle", "POST /api/auth/login", body, EmptyMap, 400)
  ELSE Handling("login:72", "POST /api/auth/login", body,
                [user |-> getUserByPhoneNumber(Store, body.phoneNumber)], NullInt)

PostAuthLogin(r, body) ==
  /\ pc[r] = "idle"
  /\ LET h == LoginReceived(body)
     IN Goto(r, h.at, h.rq.route, h.rq.body, h.rq.local, h.rq.status)
  /\ UNCHANGED <<storeVars, now>>

\* ... resumed with the user: 404, or on to the await of comparePassword.
LoginLooked(r) ==
  /\ pc[r] = "login:72"
  /\ IF rq[r].local.user = Absent
     THEN Goto(r, "idle", rq[r].route, rq[r].body, EmptyMap, 404)
     ELSE Goto(r, "login:78", rq[r].route, rq[r].body, rq[r].local, NullInt)
  /\ UNCHANGED <<storeVars, now>>

\* ... resumed with isPasswordValid: 401, or 200 and the user.
LoginCompared(r) ==
  /\ pc[r] = "login:78"
  /\ IF comparePassword(rq[r].body.password, rq[r].local.user.password)
     THEN Goto(r, "idle", rq[r].route, rq[r].body,
               [json |-> WithoutPassword(rq[r].local.user)], 200)
     ELSE Goto(r, "idle", rq[r].route, rq[r].body, EmptyMap, 401)
  /\ UNCHANGED <<storeVars, now>>

\* POST /api/auth/register up to the await of getUserByPhoneNumber, for a
\* request the browser sends.
RegisterReceived(body) ==
  IF ValidInsertUser(body)
  THEN Handling("register:20", "POST /api/auth/register", body,
                [existingUser |-> getUserByPhoneNumber(Store, body.phoneNumber)], NullInt)
  ELSE Handling("idle", "POST /api/auth/register", body, EmptyMap, 400)

\* The module-level confirmationResult of the auth module: the phone number
\* the identity provider sent a code to, null before the first sendOTP.
ConfirmationResult ==
  IF rq[Browser].route = "browser" THEN rq[Browser].local.confirmationResult ELSE NullStr

\* The slot whose response the browser's apiRequest awaits.
Awaited ==
  IF pc[Browser] \in {"sendOTP:47", "verifyOTP:83", "verifyOTP:93"}
  THEN {rq[Browser].local.request} ELSE {}

\* The browser is at position at; its request in slot r is handled as h.
BrowserSends(at, local, r, h) ==
  /\ pc' = [pc EXCEPT ![Browser] = at, ![r] = h.at]
  /\ rq' = [rq EXCEPT ![Browser] = [route |-> "browser", body |-> EmptyMap,
                                    local |-> local, status |-> NullInt],
                      ![r] = h.rq]

\* sendOTP or verifyOTP returns.
BrowserReturns(fn, success, confirmationResult, confirmed) ==
  Goto(Browser, "idle", "browser", EmptyMap,
       [confirmationResult |-> confirmationResult, formattedPhone |-> NullStr,
        confirmed |-> confirmed, request |-> NullInt,
        returned |-> [fn |-> fn, success |-> success]], NullInt)

\* sendOTP up to the await of apiRequest, whose fetch has sent the request.
SendOTP(phoneNumber) ==
  /\ pc[Browser] = "idle"
  /\ \E r \in Servers :
       /\ pc[r] = "idle"
       /\ BrowserSends("sendOTP:47",
                       [confirmationResult |-> ConfirmationResult,
                        formattedPhone |-> FormattedPhone(phoneNumber),
                        confirmed |-> NullStr, request |-> r,
                        returned |-> [fn |-> "", success |-> FALSE]],
                       r, VerifyPhoneReceived([phoneNumber |-> FormattedPhone(phoneNumber)]))
  /\ UNCHANGED <<storeVars, now>>

\* verifyOTP up to the await of confirmationResult.confirm.
VerifyOTP ==
  /\ pc[Browser] = "idle"
  /\ IF FalsyStr(ConfirmationResult)
     THEN BrowserReturns("verifyOTP", FALSE, ConfirmationResult, NullStr)
     ELSE Goto(Browser, "verifyOTP:71", "browser", EmptyMap,
               [confirmationResult |-> ConfirmationResult, formattedPhone |-> NullStr,
                confirmed |-> NullStr, request |-> NullInt,
                returned |-> [fn |-> "", success |-> FALSE]], NullInt)
  /\ UNCHANGED <<storeVars, now>>

\* signInWithPhoneNumber has resolved or rejected: sendOTP returns.
ProviderSent(resolved) ==
  /\ pc[Browser] = "sendOTP:55"
  /\ IF resolved
     THEN BrowserReturns("sendOTP", TRUE, rq[Browser].local.formattedPhone, NullStr)
     ELSE BrowserReturns("sendOTP", FALSE, ConfirmationResult, NullStr)
  /\ UNCHANGED <<storeVars, now>>

\* confirmationResult.confirm has resolved or rejected: on resolution
\* verifyOTP posts the verified phone number to /api/auth/login.
ProviderConfirmed(resolved) ==
  /\ pc[Browser] = "verifyOTP:71"
  /\ IF resolved
     THEN \E r \in Servers :
            /\ pc[r] = "idle"
            /\ BrowserSends("verifyOTP:83",
                            [rq[Browser].local EXCEPT !.confirmed = ConfirmationResult,
                                                      !.request = r],
                            r, LoginReceived([phoneNumber |-> ConfirmationResult]))
     ELSE BrowserReturns("verifyOTP", FALSE, ConfirmationResult, NullStr)
  /\ UNCHANGED <<storeVars, now>>

\* fetch has resolved: apiRequest throws unless the status is 2xx, and
\* otherwise gives the response to sendOTP or verifyOTP, which goes on.
ApiRequestAnswered ==
  /\ Awaited # {}
  /\ LET r     == rq[Browser].local.request
         local == rq[Browser].local
         ok    == rq[r].status \in 200..299
     IN /\ pc[r] = "idle"
        /\ IF pc[Browser] = "sendOTP:47"
           THEN IF ok
                THEN Goto(Browser, "sendOTP:55", "browser", EmptyMap, local, NullInt)
                ELSE BrowserReturns("sendOTP", FALSE, local.confirmationResult, NullStr)
           ELSE IF pc[Browser] = "verifyOTP:83"
           THEN IF ~ok
                THEN BrowserReturns("verifyOTP", FALSE, local.confirmationResult,
                                    local.confirmed)
                ELSE IF rq[r].status = 404
                THEN LET username == "user_" \o LastTenDigits(local.confirmed)
                     IN BrowserSends("verifyOTP:93", local, r,
                                     RegisterReceived([username |-> username,
                                                       phoneNumber |-> local.confirmed,
                                                       password |-> "random",
                                                       displayName |-> username,
                                                       photoURL |-> NullStr]))
                ELSE BrowserReturns("verifyOTP", TRUE, local.confirmationResult,
                                    local.confirmed)
           ELSE BrowserReturns("verifyOTP", ok, local.confirmationResult, local.confirmed)
  /\ UNCHANGED <<storeVars, now>>

\* The browser's phone login beside the login and register requests of other
\* HTTP clients.
NextLogin ==
  \/ \E phoneNumber \in PhoneInputs : SendOTP(phoneNumber)
  \/ \E resolved \in BOOLEAN : ProviderSent(resolved)
  \/ VerifyOTP
  \/ \E resolved \in BOOLEAN : ProviderConfirmed(resolved)
  \/ ApiRequestAnswered
  \/ \E r \in Servers :
       \/ /\ r \notin Awaited
          /\ \E body \in LoginBodies : PostAuthLogin(r, body)
       \/ /\ r \notin Awaited
          /\ \E body \in {b \in RegisterBodies : b.username = "alice"
                                                 /\ b.phoneNumber = "+15550001"} :
               PostAuthRegister(r, body)
       \/ VerifyPhoneLooked(r)
       \/ LoginLooked(r)
       \/ LoginCompared(r)
       \/ RegisterChecked(r)
       \/ RegisterHashed(r)
       \/ RegisterCreated(r)

SpecLogin == Init /\ [][NextLogin]_vars

\* ----------------------------------------------------------------- claims
\* C1: after any sequence of createBoard, addBoardMember, removeBoardMember,
\* updateBoardMemberRole and deleteBoard calls there is at most one Membership
\* for each (boardId, userId) pair.
C1_OneMembershipPerPair ==
  \A i, j \in DOMAIN boardMembers :
    (/\ boardMembers[i].boardId = boardMembers[j].boardId
     /\ boardMembers[i].userId = boardMembers[j].userId) => i = j

\* A board with two members, after a membership was removed, and a further add
\* for an existing pair that creates nothing.
C1_Witness ==
  /\ \E i, j \in DOMAIN boardMembers :
       i # j /\ boardMembers[i].boardId = boardMembers[j].boardId
  /\ Cardinality(DOMAIN boardMembers) < currentBoardMemberId - 1
  /\ \E m \in InsertMembers :
       /\ PairMembers(Store, m.boardId, m.userId) # {}
       /\ addBoardMember(Store, m).s = Store

\* C2: in every reachable state, for every board B and account A, two
\* addBoardMember calls for (B, A) in a row leave exactly one Membership for
\* (B, A); the second call returns the Membership the first call returned and
\* changes nothing, and when the first call created the Membership its role
\* is the role of the first call, whatever role the second call asks for.
C2_IdempotentAdd ==
  \A m1, m2 \in InsertMembers :
    (m1.boardId = m2.boardId /\ m1.userId = m2.userId) =>
      LET first  == addBoardMember(Store, m1)
          second == addBoardMember(first.s, m2)
      IN /\ Cardinality(PairMembers(second.s, m1.boardId, m1.userId)) = 1
         /\ second.ret = first.ret
         /\ second.s = first.s
         /\ second.s.boardMembers[second.ret.id] = first.ret
         /\ PairMembers(Store, m1.boardId, m1.userId) = {} =>
              second.ret.role = OrElseStr(m1.role, "editor")

\* A Membership created with role viewer by an earlier addBoardMember call, and
\* a second call for its pair that asks for the default role and gets it back
\* as it is.
C2_Witness ==
  \E i \in DOMAIN boardMembers :
    /\ boardMembers[i].role = "viewer"
    /\ LET again == addBoardMember(Store, [boardId |-> boardMembers[i].boardId,
                                           userId |-> boardMembers[i].userId,
                                           role |-> Undefined])
       IN again.ret = boardMembers[i] /\ again.ret.role # "editor"

\* C4: in every reachable state, when createBoard(data) returns board B there
\* is a Membership for (B.id, data.createdBy) whose role is admin, and it is
\* the only Membership whose boardId is B.id.
C4_CreatorIsOnlyAdmin ==
  \A data \in InsertBoards :
    LET res == createBoard(Store, data, now)
        B   == res.ret
    IN \E i \in MembersOf(res.s, B.id) :
         /\ res.s.boardMembers[i].userId = data.createdBy
         /\ res.s.boardMembers[i].role = "admin"
         /\ MembersOf(res.s, B.id) = {i}

\* C7: for every account A, getBoardsByUser(A) returns the union of the boards
\* whose createdBy is A and the boards on which A has a Membership, each board
\* handle exactly once.
C7_UnionEachOnce ==
  \A A \in UserArgs :
    LET res == getBoardsByUser(Store, A)
        union == {b \in DOMAIN boards :
                    boards[b].createdBy = A \/ PairMembers(Store, b, A) # {}}
    IN /\ Len(res) = Cardinality(union)
       /\ \A b \in union :
            Cardinality({i \in 1..Len(res) : "id" \in DOMAIN res[i] /\ res[i].id = b}) = 1

\* C3: for every existing board B, whatever memberships and todos it has,
\* deleteBoard(B) returns true and right after it getTodos(B) is empty,
\* getBoardMembers(B) is empty and getBoard(B) is absent.
C3_CascadeComplete ==
  \A B \in BoardArgs :
    LET res == deleteBoard(Store, B)
    IN /\ B \in DOMAIN boards => res.ret
       /\ res.ret =>
            /\ getTodos(res.s, B) = <<>>
            /\ getBoardMembers(res.s, B) = <<>>
            /\ getBoard(res.s, B) = Absent

\* A board with two memberships and a todo, beside a board with a todo of its
\* own, and a deleteBoard of the first that returns true.
C3_Witness ==
  \E B \in DOMAIN boards :
    /\ Cardinality(MembersOf(Store, B)) >= 2
    /\ TodosOf(Store, B) # {}
    /\ \E t \in DOMAIN todos : todos[t].boardId # B
    /\ deleteBoard(Store, B).ret

\* C6: for each entity kind (user, board, membership, todo) the handles given
\* by successive creations are strictly increasing, and a handle once given
\* is never given again, even after the entity carrying it was deleted: every
\* handle in use lies below its kind's counter, the counter never goes down,
\* and a step gives out only handles from the counter up.
C6_MonotonicHandles ==
  [][LET InOrder(K, K2, c, c2) ==
           /\ c2 >= c
           /\ \A k \in K : k < c
           /\ \A k \in K2 \ K : c <= k /\ k < c2
     IN /\ InOrder(DOMAIN users, DOMAIN users', currentUserId, currentUserId')
        /\ InOrder(DOMAIN boards, DOMAIN boards', currentBoardId, currentBoardId')
        /\ InOrder(DOMAIN boardMembers, DOMAIN boardMembers',
                   currentBoardMemberId, currentBoardMemberId')
        /\ InOrder(DOMAIN todos, DOMAIN todos', currentTodoId, currentTodoId')]_vars

\* A board, a membership and a todo each created after an earlier one of its
\* kind was deleted, and two accounts.
C6_Witness ==
  LET HasGap(K) == \E k \in K : \E j \in 1..(k - 1) : j \notin K
  IN /\ HasGap(DOMAIN boards)
     /\ HasGap(DOMAIN boardMembers)
     /\ HasGap(DOMAIN todos)
     /\ Cardinality(DOMAIN users) >= 2

\* C8 as claimed: for every existing todo T, every updateTodo(T, updates) call
\* leaves T with an updatedAt strictly greater than the one it had.
C8_StrictlyGreater ==
  \A T \in DOMAIN todos, up \in TodoUpdates :
    updateTodo(Store, T, up, now).s.todos[T].updatedAt > todos[T].updatedAt

\* C8 as amended: every updateTodo(T, updates) call, whatever the updates hold,
\* leaves T with updatedAt equal to the reading of the clock at the call; that
\* is never less than the updatedAt T had, and greater when the clock has
\* advanced since.
C8_RefreshedToNow ==
  \A T \in DOMAIN todos, up \in TodoUpdates :
    LET after == updateTodo(Store, T, up, now).s.todos[T]
    IN /\ after.updatedAt = now
       /\ after.updatedAt >= todos[T].updatedAt
       /\ todos[T].updatedAt < now => after.updatedAt > todos[T].updatedAt

\* A todo that an updateTodo call has stamped after the clock advanced, in the
\* millisecond of that call.
C8_Witness ==
  \E T \in DOMAIN todos :
    /\ todos[T].createdAt < todos[T].updatedAt
    /\ todos[T].updatedAt = now

\* C5: when request handlers interleave at their awaits, no other request
\* finds the store in the middle of a compound write: every board in the
\* store has the Membership createBoard looks up or inserts for its creator
\* (no route driven here removes a single Membership), a createBoard in
\* flight has had that lookup or insert run, and once a deleteBoard in flight
\* has removed its board none of the memberships and todos its cascade is to
\* delete is left in the store.
C5_NoPartialWrite ==
  /\ \A b \in DOMAIN boards : PairMembers(Store, b, boards[b].createdBy) # {}
  /\ \A r \in Reqs :
       pc[r] # "idle" =>
         /\ rq[r].route = "POST /api/boards" => rq[r].local.member # NullInt
         /\ rq[r].route = "DELETE /api/boards/:id" =>
              /\ rq[r].local.doomedMembers \cap DOMAIN boardMembers = {}
              /\ rq[r].local.doomedTodos \cap DOMAIN todos = {}
              /\ rq[r].local.deleted => rq[r].body.id \notin DOMAIN boards

\* A createBoard request and a deleteBoard request in flight together, the
\* second having deleted a board that had a membership and a todo.
C5_Witness ==
  \E r1, r2 \in Reqs :
    /\ pc[r1] = "await" /\ rq[r1].route = "POST /api/boards"
    /\ pc[r2] = "await" /\ rq[r2].route = "DELETE /api/boards/:id"
    /\ rq[r2].local.deleted
    /\ rq[r2].local.doomedMembers # {}
    /\ rq[r2].local.doomedTodos # {}

\* C9: after any interleaving of POST /api/auth/register requests no two
\* accounts in the store have the same phoneNumber, and a request answered
\* 409 carried the phone number of a stored account.
C9_UniquePhoneNumber ==
  /\ \A i, j \in DOMAIN users :
       users[i].phoneNumber = users[j].phoneNumber => i = j
  /\ \A r \in Reqs :
       rq[r].status = 409 =>
         \E i \in DOMAIN users : users[i].phoneNumber = rq[r].body.phoneNumber

\* C10: after any sequence of account registrations no two accounts in the
\* store have the same username.
C10_UniqueUsername ==
  \A i, j \in DOMAIN users :
    users[i].username = users[j].username => i = j

\* C11: for every existing board B and every partial update object that
\* updateBoard accepts, the stored board's createdAt and createdBy after
\* updateBoard(B, updates) equal their values before the call.
C11_CreationFieldsKept ==
  \A B \in DOMAIN boards, up \in BoardUpdates :
    LET after == updateBoard(Store, B, up).s.boards[B]
    IN /\ after.createdAt = boards[B].createdAt
       /\ after.createdBy = boards[B].createdBy

\* C12: for every existing board B, a PUT /api/boards/:id request whose body
\* holds a subset of title, description and color leaves each of the three
\* fields that is not in the body equal to its stored value.
C12_AbsentFieldsKept ==
  \A B \in DOMAIN boards, body \in PutBoardBodies :
    LET after == updateBoard(Store, B, BoardFields(body)).s.boards[B]
    IN \A f \in {"title", "description", "color"} \ DOMAIN body :
         after[f] = boards[B][f]

\* C13: deleteBoard(h) returns true exactly when a board with handle h
\* existed before the call, and when it returns false the boards,
\* memberships, todos and accounts (and the counters) are as they were.
C13_FalseIffAbsent ==
  \A h \in BoardArgs :
    LET res == deleteBoard(Store, h)
    IN /\ res.ret <=> h \in DOMAIN boards
       /\ ~res.ret => res.s = Store

\* A handle with no board that a membership and a todo still refer to, beside
\* an existing board and an account, and a deleteBoard of it returning false.
C13_Witness ==
  \E h \in BoardArgs :
    /\ h \notin DOMAIN boards
    /\ MembersOf(Store, h) # {}
    /\ TodosOf(Store, h) # {}
    /\ DOMAIN boards # {}
    /\ DOMAIN users # {}
    /\ ~deleteBoard(Store, h).ret

\* C14: every read operation (getUser, getUserByUsername,
\* getUserByPhoneNumber, getBoards, getBoardsByUser, getBoard,
\* getBoardWithMembers, getBoardMembers, getTodos, getTodo) leaves the four
\* collections and the four counters as they were, in every reachable state
\* and for every argument.
C14_ReadsChangeNothing ==
  [][Reads => UNCHANGED storeVars]_vars

\* A store in which the reads have something to return: an account, a board
\* with a todo and two memberships, and a membership whose board is not there.
C14_Witness ==
  /\ DOMAIN users # {}
  /\ \E B \in DOMAIN boards :
       /\ Len(getTodos(Store, B)) >= 1
       /\ Len(getBoardWithMembers(Store, B).members) >= 2
  /\ \E m \in DOMAIN boardMembers :
       /\ boardMembers[m].boardId \notin DOMAIN boards
       /\ Len(getBoardsByUser(Store, boardMembers[m].userId)) >= 1

\* C15: a todo created without a status has status todo, and from each of
\* the statuses todo, in-progress and completed an updateTodo call moves the
\* todo to each of the other two; no status is terminal.
C15_NoTerminalStatus ==
  /\ \A t \in InsertTodos :
       t.status = Undefined => createTodo(Store, t, now).ret.status = "todo"
  /\ \A T \in DOMAIN todos :
       /\ todos[T].status \in Statuses
       /\ \A st \in Statuses \ {todos[T].status} :
            LET res == updateTodo(Store, T, [status |-> st], now)
            IN res.ret.status = st /\ res.s.todos[T].status = st

\* A completed todo, beside a todo that an update after the clock advanced has
\* left in (or brought back to) status todo and that can go on to in-progress.
C15_Witness ==
  \E T1, T2 \in DOMAIN todos :
    /\ todos[T1].status = "completed"
    /\ updateTodo(Store, T1, [status |-> "todo"], now).ret.status = "todo"
    /\ todos[T2].status = "todo"
    /\ todos[T2].updatedAt > todos[T2].createdAt
    /\ updateTodo(Store, T2, [status |-> "in-progress"], now).ret.status = "in-progress"

\* C16: after any sequence of requests to POST /api/boards, POST
\* /api/boards/:id/members and PATCH and DELETE
\* /api/boards/:boardId/members/:userId, the role of every stored Membership
\* is one of viewer, editor, admin, and no request that carries another role
\* gets as far as its store call.
C16_RolesInEnum ==
  /\ \A m \in DOMAIN boardMembers : boardMembers[m].role \in Roles
  /\ \A r \in Reqs :
       (/\ pc[r] = "await"
        /\ rq[r].route \in {"POST /api/boards/:id/members",
                             "PATCH /api/boards/:boardId/members/:userId"})
         => Prop(rq[r].body, "role") \in Roles \cup {Undefined}

\* C17: after any sequence of requests to POST /api/boards/:id/todos and PUT
\* /api/todos/:id, every stored todo has a status among todo, in-progress,
\* completed and a priority among low, medium, high, critical.
C17_TodoEnums ==
  \A T \in DOMAIN todos :
    /\ todos[T].status \in Statuses
    /\ todos[T].priority \in Priorities

\* C18: for a target that does not exist, getUser, getBoard,
\* getBoardWithMembers, getTodo, updateBoard, updateTodo and
\* updateBoardMemberRole return absent, deleteBoard, deleteTodo and
\* removeBoardMember return false, and each leaves the store as it was.
C18_TotalOnAbsent ==
  /\ \A id \in UserArgs :
       id \notin DOMAIN users => getUser(Store, id) = Absent
  /\ \A id \in BoardArgs :
       id \notin DOMAIN boards =>
         /\ getBoard(Store, id) = Absent
         /\ getBoardWithMembers(Store, id) = Absent
         /\ \A up \in BoardUpdates :
              updateBoard(Store, id, up) = [s |-> Store, ret |-> Absent]
         /\ deleteBoard(Store, id) = [s |-> Store, ret |-> FALSE]
  /\ \A id \in TodoArgs :
       id \notin DOMAIN todos =>
         /\ getTodo(Store, id) = Absent
         /\ \A up \in TodoUpdates :
              updateTodo(Store, id, up, now) = [s |-> Store, ret |-> Absent]
         /\ deleteTodo(Store, id) = [s |-> Store, ret |-> FALSE]
  /\ \A b \in BoardArgs, u \in UserArgs :
       PairMembers(Store, b, u) = {} =>
         /\ \A role \in Roles :
              updateBoardMemberRole(Store, b, u, role) = [s |-> Store, ret |-> Absent]
         /\ removeBoardMember(Store, b, u) = [s |-> Store, ret |-> FALSE]

\* A deleted board that a membership still refers to, a deleted todo, an
\* account that was never created and a pair without membership, in a store
\* that holds a board, a membership and a todo; updateBoard of the deleted
\* board returns absent.
C18_Witness ==
  /\ DOMAIN boards # {} /\ DOMAIN boardMembers # {} /\ DOMAIN todos # {}
  /\ \E b \in BoardArgs :
       /\ b \notin DOMAIN boards /\ b < currentBoardId
       /\ MembersOf(Store, b) # {}
       /\ updateBoard(Store, b, [title |-> "Renamed"]).ret = Absent
  /\ \E t \in TodoArgs : t \notin DOMAIN todos /\ t < currentTodoId
  /\ \E u \in UserArgs : u \notin DOMAIN users
  /\ \E b \in BoardArgs, u \in UserArgs :
       PairMembers(Store, b, u) = {} /\ ~removeBoardMember(Store, b, u).ret

\* C19: every state-changing request that does not carry the CSRF token the
\* server issues for its client is answered 403 before a route handler
\* changes the store: no POST /api/boards request has reached its store call
\* without carrying, as _csrf, a token the server issues.
C19_CsrfRejected ==
  \A r \in Reqs :
    (pc[r] = "await" /\ rq[r].route = "POST /api/boards") =>
      /\ "_csrf" \in DOMAIN rq[r].body
      /\ \E c \in Clients : rq[r].body["_csrf"] = generateCsrfToken(c)

\* C20: for every board returned by getBoardsByUser or getBoards, todoCount
\* is the number of stored todos whose boardId is the board's handle and
\* memberCount the number of stored memberships whose boardId is it.
C20_CountsMatch ==
  LET Counted(e) ==
        "id" \in DOMAIN e =>
          /\ e.todoCount = Cardinality({t \in DOMAIN todos : todos[t].boardId = e.id})
          /\ e.memberCount =
               Cardinality({m \in DOMAIN boardMembers : boardMembers[m].boardId = e.id})
  IN /\ \A A \in UserArgs :
          LET res == getBoardsByUser(Store, A)
          IN \A i \in 1..Len(res) : Counted(res[i])
     /\ LET all == getBoards(Store)
        IN \A i \in 1..Len(all) : Counted(all[i])

\* An account whose two boards differ in both counts, beside a membership and
\* a todo of these boards that the counts of the other board leave out.
C20_Witness ==
  \E A \in UserArgs :
    LET res == getBoardsByUser(Store, A)
    IN /\ Len(res) = 2 /\ Len(getBoards(Store)) = 2
       /\ "id" \in DOMAIN res[1] /\ "id" \in DOMAIN res[2]
       /\ res[1].todoCount # res[2].todoCount
       /\ res[1].memberCount # res[2].memberCount
       /\ res[1].todoCount + res[2].todoCount >= 1
       /\ res[1].memberCount >= 1 /\ res[2].memberCount >= 1

\* C21: getTodos(B) returns exactly the stored todos whose boardId is B; each
\* returned todo whose assignedTo is set carries as assignee the stored
\* account with that handle, and each whose assignedTo is unset carries no
\* assignee field.
C21_TodosWithAssignee ==
  \A B \in BoardArgs :
    LET res == getTodos(Store, B)
    IN /\ Len(res) = Cardinality({t \in DOMAIN todos : todos[t].boardId = B})
       /\ \A t \in DOMAIN todos :
            todos[t].boardId = B => \E i \in 1..Len(res) : res[i].id = t
       /\ \A i \in 1..Len(res) :
            IF res[i].assignedTo # NullInt
            THEN /\ "assignee" \in DOMAIN res[i]
                 /\ res[i].assignedTo \in DOMAIN users
                 /\ res[i].assignee = users[res[i].assignedTo]
            ELSE "assignee" \notin DOMAIN res[i]

\* C22: getBoardWithMembers(B) is absent exactly when board B does not
\* exist; otherwise its members list has one entry per Membership of B, and
\* every entry is the existing account that Membership refers to.
C22_MembersResolved ==
  \A B \in BoardArgs :
    LET res == getBoardWithMembers(Store, B)
    IN /\ res = Absent <=> B \notin DOMAIN boards
       /\ B \in DOMAIN boards =>
            /\ Len(res.members) = Cardinality(MembersOf(Store, B))
            /\ \A i \in 1..Len(res.members) : res.members[i] # Absent
            /\ \A m \in MembersOf(Store, B) :
                 /\ boardMembers[m].userId \in DOMAIN users
                 /\ \E i \in 1..Len(res.members) :
                      res.members[i] = users[boardMembers[m].userId]

\* C23: removeBoardMember(B, A) returns true exactly when a Membership for
\* (B, A) existed; on true that Membership is gone and everything else is as
\* it was, on false nothing changes.  An addBoardMember for (B, A) after a
\* removal creates a Membership with a handle above every handle in use and
\* with the role it asks for.
C23_RemoveThenAdd ==
  \A b \in BoardArgs, u \in UserArgs :
    LET pair == PairMembers(Store, b, u)
        res  == removeBoardMember(Store, b, u)
    IN /\ res.ret <=> pair # {}
       /\ ~res.ret => res.s = Store
       /\ res.ret =>
            /\ DOMAIN res.s.boardMembers = DOMAIN boardMembers \ pair
            /\ \A m \in DOMAIN res.s.boardMembers : res.s.boardMembers[m] = boardMembers[m]
            /\ [res.s EXCEPT !.boardMembers = boardMembers] = Store
            /\ \A role \in {"viewer", "admin", Undefined} :
                 LET add == addBoardMember(res.s, [boardId |-> b, userId |-> u,
                                                   role |-> role])
                 IN /\ \A m \in DOMAIN boardMembers : add.ret.id > m
                    /\ add.ret.role = OrElseStr(role, "editor")
                    /\ add.ret.boardId = b /\ add.ret.userId = u
                    /\ add.s.boardMembers[add.ret.id] = add.ret
                    /\ PairMembers(add.s, b, u) = {add.ret.id}

\* An admin Membership beside another one, after an earlier removal, whose
\* removal returns true and whose pair a later add gives the role viewer.
C23_Witness ==
  \E m \in DOMAIN boardMembers :
    LET b == boardMembers[m].boardId
        u == boardMembers[m].userId
        res == removeBoardMember(Store, b, u)
    IN /\ boardMembers[m].role = "admin"
       /\ Cardinality(DOMAIN boardMembers) >= 2
       /\ Cardinality(DOMAIN boardMembers) < currentBoardMemberId - 1
       /\ res.ret
       /\ addBoardMember(res.s, [boardId |-> b, userId |-> u, role |-> "viewer"]).ret.role
            = "viewer"

\* C24: updateBoardMemberRole(B, A, role) returns absent and changes nothing
\* when no Membership for (B, A) exists; otherwise it changes only the role
\* of that one Membership: its handle, boardId and userId, every other
\* Membership and the membership handle counter are unchanged.
C24_OnlyTheRole ==
  \A b \in BoardArgs, u \in UserArgs, role \in Roles :
    LET pair == PairMembers(Store, b, u)
        res  == updateBoardMemberRole(Store, b, u, role)
    IN IF pair = {}
       THEN res.ret = Absent /\ res.s = Store
       ELSE LET m == FirstKey(pair)
            IN /\ res.ret = [boardMembers[m] EXCEPT !.role = role]
               /\ res.ret.id = m
               /\ DOMAIN res.s.boardMembers = DOMAIN boardMembers
               /\ res.s.boardMembers[m] = res.ret
               /\ \A o \in DOMAIN boardMembers \ {m} :
                    res.s.boardMembers[o] = boardMembers[o]
               /\ res.s.currentBoardMemberId = currentBoardMemberId
               /\ [res.s EXCEPT !.boardMembers = boardMembers] = Store

\* A board with two Memberships of different roles, one of which
\* updateBoardMemberRole moves to a role neither of them has.
C24_Witness ==
  \E m, o \in DOMAIN boardMembers :
    /\ m # o
    /\ boardMembers[m].boardId = boardMembers[o].boardId
    /\ boardMembers[m].role = "admin"
    /\ boardMembers[o].role = "editor"
    /\ updateBoardMemberRole(Store, boardMembers[m].boardId, boardMembers[m].userId,
                              "viewer").s.boardMembers[m].role = "viewer"

\* C25: every todo createTodo returns has createdAt equal to updatedAt, and
\* has status todo, priority medium and null description, dueDate and
\* assignedTo whenever the input does not supply the field; the same holds
\* of the todo it stores.
C25_CreateDefaults ==
  /\ \A t \in SuppliedTodos :
       LET res == createTodo(Store, t, now)
       IN /\ res.ret.createdAt = res.ret.updatedAt
          /\ res.ret.createdAt = now
          /\ t.status = Undefined => res.ret.status = "todo"
          /\ t.priority = Undefined => res.ret.priority = "medium"
          /\ t.description = Undefined => res.ret.description = NullStr
          /\ t.dueDate = NullInt => res.ret.dueDate = NullInt
          /\ t.assignedTo = NullInt => res.ret.assignedTo = NullInt
          /\ res.s.todos[res.ret.id] = res.ret
  /\ \A id \in DOMAIN todos :
       /\ todos[id].createdAt = todos[id].updatedAt
       /\ todos[id].status # Undefined
       /\ todos[id].priority # Undefined
       /\ todos[id].description # Undefined

\* Two todos created after the clock moved: one from an input that supplies
\* no optional field, one from an input that supplies them all.
C25_Witness ==
  \E a, b \in DOMAIN todos :
    /\ todos[a].createdAt > 0
    /\ todos[a].status = "todo" /\ todos[a].priority = "medium"
    /\ todos[a].description = NullStr /\ todos[a].dueDate = NullInt
    /\ todos[a].assignedTo = NullInt
    /\ todos[b].status = "in-progress" /\ todos[b].priority = "high"
    /\ todos[b].description = "Draft" /\ todos[b].dueDate = 1
    /\ todos[b].assignedTo = 1

\* C26: a verifyOTP that the identity provider confirms ends with success
\* and with an account for the verified phone number in the store.
C26_ConfirmedLoginSucceeds ==
  (/\ pc[Browser] = "idle"
   /\ rq[Browser].route = "browser"
   /\ rq[Browser].local.returned.fn = "verifyOTP"
   /\ rq[Browser].local.confirmed # NullStr)
  => /\ rq[Browser].local.returned.success
     /\ getUserByPhoneNumber(Store, rq[Browser].local.confirmed) # Absent

\* C27: a successful deleteBoard(B) removes only board B, the memberships
\* whose boardId is B and the todos whose boardId is B: every other board,
\* every membership and todo of another board, every account and the four
\* handle counters are unchanged.
C27_DeleteBoardFrame ==
  \A b \in BoardArgs :
    LET res == deleteBoard(Store, b)
    IN res.ret =>
         /\ DOMAIN res.s.boards = DOMAIN boards \ {b}
         /\ \A o \in DOMAIN res.s.boards : res.s.boards[o] = boards[o]
         /\ DOMAIN res.s.boardMembers
              = {m \in DOMAIN boardMembers : boardMembers[m].boardId # b}
         /\ \A m \in DOMAIN res.s.boardMembers : res.s.boardMembers[m] = boardMembers[m]
         /\ DOMAIN res.s.todos = {t \in DOMAIN todos : todos[t].boardId # b}
         /\ \A t \in DOMAIN res.s.todos : res.s.todos[t] = todos[t]
         /\ res.s.users = users
         /\ res.s.currentUserId = currentUserId
         /\ res.s.currentBoardId = currentBoardId
         /\ res.s.currentBoardMemberId = currentBoardMemberId
         /\ res.s.currentTodoId = currentTodoId

\* Two boards, each with a membership and a todo, and an account: deleteBoard
\* of the first succeeds and has something to delete and something to keep.
C27_Witness ==
  /\ {1, 2} \subseteq DOMAIN boards
  /\ users # EmptyMap
  /\ \A b \in {1, 2} : MembersOf(Store, b) # {} /\ TodosOf(Store, b) # {}
  /\ deleteBoard(Store, 1).ret
  /\ TodosOf(deleteBoard(Store, 1).s, 2) # {}

\* C28: every stored Membership and every stored Todo has a boardId that is
\* the handle of a board in the store, so getTodos and getBoardMembers are
\* empty for every handle that is not the handle of a board in the store.
C28_BoardRefsExist ==
  /\ \A m \in DOMAIN boardMembers : boardMembers[m].boardId \in DOMAIN boards
  /\ \A t \in DOMAIN todos : todos[t].boardId \in DOMAIN boards
  /\ \A b \in BoardArgs \ DOMAIN boards :
       getTodos(Store, b) = <<>> /\ getBoardMembers(Store, b) = <<>>

\* C29: for every account handle, every element getBoardsByUser returns is a
\* board of the store: its id is the handle of a board in the store and it
\* carries that board's title, color and createdBy.
C29_ElementsAreBoards ==
  \A A \in UserArgs :
    LET res == getBoardsByUser(Store, A)
    IN \A i \in 1..Len(res) :
         /\ {"id", "title", "color", "createdBy"} \subseteq DOMAIN res[i]
         /\ res[i].id \in DOMAIN boards
         /\ res[i].title = boards[res[i].id].title
         /\ res[i].color = boards[res[i].id].color
         /\ res[i].createdBy = boards[res[i].id].createdBy

\* C30: every todo is stored under the handle equal to its own id field, and
\* no body put to /api/todos/:id changes a todo's id, boardId, createdBy or
\* createdAt.
C30_IdentityFieldsStable ==
  /\ \A t \in DOMAIN todos : todos[t].id = t
  /\ \A t \in DOMAIN todos, body \in PutTodoIdentityBodies :
       LET res == updateTodo(Store, t, body, now)
       IN /\ res.ret.id = todos[t].id
          /\ res.ret.boardId = todos[t].boardId
          /\ res.ret.createdBy = todos[t].createdBy
          /\ res.ret.createdAt = todos[t].createdAt

====
